---- MODULE Spec2Model ----
(***************************************************************************)
(* Delay primitives of 09_delays/src/delays.rs:                            *)
(*   SysTmr::get_system_timer, SysTmr::wait_msec_st  (BCM system timer)    *)
(*   wait_msec                                       (ARM generic timer)   *)
(*   wait_cycles                                     (nop loop)            *)
(* The caller (boot code) invokes one operation at a time; the hardware    *)
(* counters advance between any two register accesses of the program.      *)
(* Register widths are scaled: a 32-bit word is a digit modulo WordMod, the *)
(* 64-bit composed counter a number modulo WordMod * WordMod.               *)
(***************************************************************************)
EXTENDS Integers, Sequences, FiniteSets

\* ----------------------------------------------------------------- bounds
\* Modulus of one system-timer register (stands for 2^32).
WordMod == 4
\* Modulus of the u32 arithmetic of wait_msec (stands for 2^32).
TvalMod == 8
\* Largest argument n passed to wait_msec_st / wait_msec.
MaxWait == 3
\* Largest argument cyc passed to wait_cycles.
MaxCyc == 3
\* Largest counter frequency, in multiples of 1000 Hz.
MaxKHz == 3
\* Most counter increments during one get_system_timer call.
MaxTicksPerRead == 2

\* Modulus of the composed 64-bit counter (stands for 2^64).
CounterMod == WordMod * WordMod

\* Values the frequency register CNTFRQ_EL0 may hold.
FrqValues == {0, 999} \cup {k * 1000 + 500 : k \in 1..MaxKHz}

VARIABLES
    counter,    \* hardware: free-running system timer, SYSTMR_HI:SYSTMR_LO
    TVAL,       \* hardware: CNTP_TVAL_EL0, ticks until expiry
    ctl,        \* hardware: CNTP_CTL_EL0 flags [ENABLE, IMASK]
    pc,         \* position of the program
    caller,     \* who called get_system_timer: "main", "st_base", "st_poll"
    hi,         \* get_system_timer: local hi
    t,          \* wait_msec_st: local t (baseline reading)
    n,          \* wait_msec_st / wait_msec: argument n
    frq,        \* wait_msec: local frq
    tval,       \* wait_msec: local tval
    cyc,        \* wait_cycles: argument cyc
    i,          \* wait_cycles: position of the range iterator
    nops,       \* wait_cycles: asm::nop() executed by the current call
    elapsed,    \* history: counter increments since get_system_timer was entered
    hiIncs,     \* history: high-word changes since the first register read
    last,       \* history: <<r>> for the latest composed reading r, else <<>>
    allZero,    \* history: every register read of this wait_msec_st returned 0
    polled,     \* history: this wait_msec_st entered its polling loop
    reached,    \* history: a poll of this wait_msec_st read at least t + n
    reads,      \* history of the latest get_system_timer call: hi, lo (reads
                \* of SYSTMR_HI, SYSTMR_LO), differed (its first two high
                \* reads), late (high word changed after its last high read)
    tvalWritten,\* history: this wait_msec has written CNTP_TVAL_EL0
    spun,       \* history: this wait_msec polled ISTATUS and found it clear
    observed,   \* history: a poll of this wait_msec found ISTATUS set
    gtTicks,    \* history: generic-timer ticks since this wait_msec set ENABLE
    earlyTick,  \* history: a tick fell between the TVAL write and the enable
    ctl0,       \* history: CNTP_CTL_EL0 flags when the latest call was entered
    irq,        \* a wait_msec invoked from an interrupt that preempts the
                \* polling wait_msec: its position pc, its local tval, and
                \* history: wrote (it wrote TVAL), done (it has returned)
    lastRet     \* history: operation that returned last, "none" while one runs

vars == <<counter, TVAL, ctl, pc, caller, hi, t, n, frq, tval, cyc, i, nops,
          elapsed, hiIncs, last, allZero, polled, reached, reads, tvalWritten, spun,
          observed, gtTicks, earlyTick, ctl0, irq, lastRet>>

hw      == <<counter, TVAL, ctl>>
stLoc   == <<caller, hi, t>>
gtLoc   == <<frq, tval>>
cycLoc  == <<cyc, i, nops>>
stHist  == <<elapsed, hiIncs, allZero, polled, reached, reads>>
gtHist  == <<tvalWritten, spun, observed, gtTicks, earlyTick, ctl0, irq>>

GstPcs == {"gst_hi1", "gst_hi2", "gst_hi3", "gst_lo"}
GtPcs  == {"gt_frq", "gt_tval", "gt_arm", "gt_poll", "gt_disable"}

\* ------------------------------------------------------------ pure helpers
\* SYSTMR_HI.read() and SYSTMR_LO.read(): the two halves of the counter.
HiWord(c) == c \div WordMod
LoWord(c) == c % WordMod

\* (u64::from(hi) << 32) | u64::from(lo)
Compose(h, l) == h * WordMod + l

\* hi != self.SYSTMR_HI.read()
HighChangedNever(h1, h2) == FALSE
HighChanged(h1, h2) == h1 # h2

\* if t > 0
TimerPresentAlways(x) == x >= 0
TimerPresent(x) == x > 0

\* if self.get_system_timer() < (t + n) { break; }
LoopBreaks(r, sum) == r < sum

\* (frq as u32 / 1000) * n, before the u32 width is applied
TicksAtLeastOne(f, k) == IF (f \div 1000) * k = 0 THEN 1 ELSE (f \div 1000) * k
Ticks(f, k) == (f \div 1000) * k

\* r.set(ENABLE, true); r.set(IMASK, true)
ArmFlagsUnmasked(c) == [c EXCEPT !.ENABLE = TRUE]
ArmFlags(c) == [c EXCEPT !.ENABLE = TRUE, !.IMASK = TRUE]

\* r.set(ENABLE, false)
DisarmFlagsMask(c) == [c EXCEPT !.IMASK = FALSE]
DisarmFlagsBoth(c) == [c EXCEPT !.ENABLE = FALSE, !.IMASK = FALSE]
DisarmFlags(c) == [c EXCEPT !.ENABLE = FALSE]

\* CNTP_CTL_EL0 ISTATUS: the enabled timer's condition is met.
ISTATUS(tv, c) == c.ENABLE /\ tv = 0

\* for _ in 0..cyc
RangeEndInclusive(c) == c + 1
RangeEnd(c) == c

\* Counter values held since the running get_system_timer call was entered.
Seen == {(counter + CounterMod - k) % CounterMod : k \in 0..elapsed}

\* No register read yet.
NoReads == [hi |-> 0, lo |-> 0, differed |-> FALSE, late |-> FALSE]

\* No interrupt-level wait_msec is running or has run.
IrqOff == [pc |-> "off", tval |-> 0, wrote |-> FALSE, done |-> FALSE]

\* ------------------------------------------------------------------- Init
Init ==
    /\ counter \in 0..(CounterMod - 1)
    /\ TVAL \in {0, 1}
    /\ ctl \in [ENABLE : BOOLEAN, IMASK : BOOLEAN]
    /\ pc = "idle"
    /\ caller = "main"
    /\ hi = 0 /\ t = 0 /\ n = 0 /\ frq = 0 /\ tval = 0
    /\ cyc = 0 /\ i = 0 /\ nops = 0
    /\ elapsed = 0 /\ hiIncs = 0
    /\ last = <<>>
    /\ allZero = FALSE /\ polled = FALSE /\ reached = FALSE
    /\ reads = NoReads
    /\ tvalWritten = FALSE /\ spun = FALSE /\ observed = FALSE
    /\ gtTicks = 0 /\ earlyTick = FALSE
    /\ ctl0 = ctl
    /\ irq = IrqOff
    /\ lastRet = "none"

\* --------------------------------------------------------------- hardware
\* The system timer counts on, whatever the program does.
Tick ==
    /\ pc \in GstPcs => elapsed < MaxTicksPerRead
    /\ counter' = (counter + 1) % CounterMod
    /\ elapsed' = IF pc \in GstPcs THEN elapsed + 1 ELSE elapsed
    /\ hiIncs' = IF pc \in {"gst_hi2", "gst_hi3", "gst_lo"}
                    /\ HiWord(counter') # HiWord(counter)
                 THEN hiIncs + 1 ELSE hiIncs
    /\ last' = IF counter' = 0 THEN <<>> ELSE last
    /\ reads' = [reads EXCEPT !.late = @ \/ (pc = "gst_lo"
                     /\ HiWord(counter') # HiWord(counter))]
    /\ UNCHANGED <<TVAL, ctl, pc, stLoc, n, gtLoc, cycLoc, allZero, polled,
                   reached, gtHist, lastRet>>

\* The generic timer counts TVAL down to its expiry.
GtTick ==
    /\ TVAL > 0
    /\ TVAL' = TVAL - 1
    /\ gtTicks' = IF pc \in {"gt_poll", "gt_disable"} THEN gtTicks + 1 ELSE gtTicks
    /\ earlyTick' = (earlyTick \/ pc = "gt_arm")
    /\ UNCHANGED <<counter, ctl, pc, stLoc, n, gtLoc, cycLoc, stHist, last,
                   tvalWritten, spun, observed, ctl0, irq, lastRet>>

\* Locals and per-call history as a fresh call finds them.
Enter(op) ==
    /\ pc = "idle"
    /\ lastRet' = "none"
    /\ hi' = 0 /\ t' = 0 /\ frq' = 0 /\ tval' = 0
    /\ i' = 0 /\ nops' = 0
    /\ elapsed' = 0 /\ hiIncs' = 0
    /\ polled' = FALSE /\ reached' = FALSE
    /\ reads' = NoReads
    /\ tvalWritten' = FALSE /\ spun' = FALSE /\ observed' = FALSE
    /\ gtTicks' = 0 /\ earlyTick' = FALSE
    /\ ctl0' = ctl
    /\ irq' = IrqOff
    /\ allZero' = (op = "wait_msec_st")
    /\ last' = IF op \in {"get_system_timer", "wait_msec_st"} THEN last ELSE <<>>
    /\ UNCHANGED hw

\* ------------------------------------------------------- get_system_timer
CallGetSystemTimer ==
    /\ Enter("get_system_timer")
    /\ pc' = "gst_hi1"
    /\ caller' = "main"
    /\ n' = 0 /\ cyc' = 0

\* let mut hi = self.SYSTMR_HI.read();
GstReadHi1 ==
    /\ pc = "gst_hi1"
    /\ hi' = HiWord(counter)
    /\ allZero' = (allZero /\ HiWord(counter) = 0)
    /\ reads' = [reads EXCEPT !.hi = @ + 1]
    /\ pc' = "gst_hi2"
    /\ UNCHANGED <<hw, caller, t, n, gtLoc, cycLoc, elapsed, hiIncs, last,
                   polled, reached, gtHist, lastRet>>

\* if hi != self.SYSTMR_HI.read()
GstReadHi2 ==
    /\ pc = "gst_hi2"
    /\ pc' = IF HighChanged(hi, HiWord(counter)) THEN "gst_hi3" ELSE "gst_lo"
    /\ allZero' = (allZero /\ HiWord(counter) = 0)
    /\ reads' = [reads EXCEPT !.hi = @ + 1, !.differed = (hi # HiWord(counter))]
    /\ UNCHANGED <<hw, stLoc, n, gtLoc, cycLoc, elapsed, hiIncs, last,
                   polled, reached, gtHist, lastRet>>

\* hi = self.SYSTMR_HI.read();
GstReadHi3Retry ==
    /\ pc = "gst_hi3"
    /\ hi' = HiWord(counter)
    /\ allZero' = (allZero /\ HiWord(counter) = 0)
    /\ reads' = [reads EXCEPT !.hi = @ + 1]
    /\ pc' = "gst_hi2"
    /\ UNCHANGED <<hw, caller, t, n, gtLoc, cycLoc, elapsed, hiIncs, last,
                   polled, reached, gtHist, lastRet>>
GstReadHi3 ==
    /\ pc = "gst_hi3"
    /\ hi' = HiWord(counter)
    /\ allZero' = (allZero /\ HiWord(counter) = 0)
    /\ reads' = [reads EXCEPT !.hi = @ + 1]
    /\ pc' = "gst_lo"
    /\ UNCHANGED <<hw, caller, t, n, gtLoc, cycLoc, elapsed, hiIncs, last,
                   polled, reached, gtHist, lastRet>>

\* The value get_system_timer returns when it reads SYSTMR_LO now.
Reading == Compose(hi, LoWord(counter))

\* self.SYSTMR_LO.read(), the composition and the return, as every caller
\* sees them.
GstReturn ==
    /\ pc = "gst_lo"
    /\ last' = IF counter < elapsed THEN <<>> ELSE <<Reading>>
    /\ allZero' = (allZero /\ LoWord(counter) = 0)
    /\ hi' = 0
    /\ elapsed' = 0 /\ hiIncs' = 0
    /\ UNCHANGED <<hw, n, gtLoc, cycLoc, gtHist>>

\* get_system_timer called by the boot code itself.
GstReadLo ==
    /\ caller = "main"
    /\ GstReturn
    /\ pc' = "idle"
    /\ lastRet' = "get_system_timer"
    /\ reads' = [reads EXCEPT !.lo = @ + 1]
    /\ UNCHANGED <<caller, t, polled, reached>>

\* ----------------------------------------------------------- wait_msec_st
\* t + n in u64 arithmetic, as an unchecked build computes it.
Sum64(a, b) == (a + b) % CounterMod

CallWaitMsecSt ==
    \E k \in 0..MaxWait :
        /\ Enter("wait_msec_st")
        /\ n' = k
        /\ pc' = "gst_hi1"
        /\ caller' = "st_base"
        /\ cyc' = 0

\* let t = self.get_system_timer(); if t > 0 { loop { ... } }
StBaseline ==
    /\ caller = "st_base"
    /\ GstReturn
    /\ IF TimerPresent(Reading)
       THEN /\ t' = Reading
            /\ pc' = "gst_hi1"
            /\ caller' = "st_poll"
            /\ polled' = TRUE
            /\ lastRet' = lastRet
            /\ reads' = NoReads
       ELSE /\ t' = 0
            /\ pc' = "idle"
            /\ caller' = "main"
            /\ polled' = polled
            /\ lastRet' = "wait_msec_st"
            /\ reads' = [reads EXCEPT !.lo = @ + 1]
    /\ UNCHANGED reached

\* if self.get_system_timer() < (t + n) { break; }
StPoll ==
    /\ caller = "st_poll"
    /\ GstReturn
    /\ reached' = (reached \/ Reading >= t + n)
    /\ IF LoopBreaks(Reading, Sum64(t, n))
       THEN /\ t' = 0
            /\ pc' = "idle"
            /\ caller' = "main"
            /\ lastRet' = "wait_msec_st"
            /\ reads' = [reads EXCEPT !.lo = @ + 1]
       ELSE /\ t' = t
            /\ pc' = "gst_hi1"
            /\ caller' = caller
            /\ lastRet' = lastRet
            /\ reads' = NoReads
    /\ UNCHANGED polled

\* t + n overflows u64 and the build checks arithmetic: the program panics.
StPollPanic ==
    /\ caller = "st_poll"
    /\ t + n >= CounterMod
    /\ GstReturn
    /\ pc' = "panic"
    /\ reads' = [reads EXCEPT !.lo = @ + 1]
    /\ UNCHANGED <<caller, t, polled, reached, lastRet>>

\* -------------------------------------------------------------- wait_msec
\* The u32 product, as an unchecked build computes it.
WrapU32(x) == x % TvalMod

CallWaitMsec ==
    \E k \in 0..MaxWait :
        /\ Enter("wait_msec")
        /\ n' = k
        /\ pc' = "gt_frq"
        /\ caller' = "main"
        /\ cyc' = 0

\* let frq = CNTFRQ_EL0::read_raw(); let tval = (frq as u32 / 1000) * n;
\* The frequency is fixed by the hardware; each call may meet any of them.
GtReadFrq ==
    /\ pc = "gt_frq"
    /\ \E f \in FrqValues :
        /\ frq' = f
        /\ tval' = WrapU32(Ticks(f, n))
    /\ pc' = "gt_tval"
    /\ UNCHANGED <<hw, stLoc, n, cycLoc, stHist, last, gtHist, lastRet>>

\* The product overflows u32 and the build checks arithmetic: panic.
GtPanic ==
    /\ pc = "gt_frq"
    /\ \E f \in FrqValues :
        /\ Ticks(f, n) >= TvalMod
        /\ frq' = f
    /\ pc' = "panic"
    /\ UNCHANGED <<hw, stLoc, n, tval, cycLoc, stHist, last, gtHist, lastRet>>

\* CNTP_TVAL_EL0::write_raw(tval);
GtWriteTval ==
    /\ pc = "gt_tval"
    /\ TVAL' = tval
    /\ tvalWritten' = TRUE
    /\ pc' = "gt_arm"
    /\ UNCHANGED <<counter, ctl, stLoc, n, gtLoc, cycLoc, stHist, last, spun,
                   observed, gtTicks, earlyTick, ctl0, irq, lastRet>>

\* CNTP_CTL_EL0::modify_flags(|r| { ENABLE, IMASK });
GtArm ==
    /\ pc = "gt_arm"
    /\ ctl' = ArmFlags(ctl)
    /\ pc' = "gt_poll"
    /\ UNCHANGED <<counter, TVAL, stLoc, n, gtLoc, cycLoc, stHist, last,
                   gtHist, lastRet>>

\* loop { if read_flags().contains(ISTATUS) { break; } }
GtPoll ==
    /\ pc = "gt_poll"
    /\ irq.pc = "off"
    /\ IF ISTATUS(TVAL, ctl)
       THEN pc' = "gt_disable" /\ spun' = spun /\ observed' = TRUE
       ELSE pc' = pc /\ spun' = TRUE /\ observed' = observed
    /\ UNCHANGED <<hw, stLoc, n, gtLoc, cycLoc, stHist, last, tvalWritten,
                   gtTicks, earlyTick, ctl0, irq, lastRet>>

\* CNTP_CTL_EL0::modify_flags(|r| { r.set(ENABLE, false) }); and the return
GtDisable ==
    /\ pc = "gt_disable"
    /\ ctl' = DisarmFlags(ctl)
    /\ pc' = "idle"
    /\ lastRet' = "wait_msec"
    /\ UNCHANGED <<counter, TVAL, stLoc, n, gtLoc, cycLoc, stHist, last, gtHist>>

\* ------------------------------------------------------------ wait_cycles
CallWaitCycles ==
    \E c \in 0..MaxCyc :
        /\ Enter("wait_cycles")
        /\ cyc' = c
        /\ n' = 0
        /\ pc' = "cyc_loop"
        /\ caller' = "main"

\* for _ in 0..cyc { asm::nop(); }
CycNopArmsTimer ==
    /\ pc = "cyc_loop"
    /\ i < RangeEnd(cyc)
    /\ i' = i + 1
    /\ nops' = nops + 1
    /\ ctl' = ArmFlags(ctl)
    /\ UNCHANGED <<counter, TVAL, pc, stLoc, n, gtLoc, cyc, stHist, last,
                   gtHist, lastRet>>
CycNop ==
    /\ pc = "cyc_loop"
    /\ i < RangeEnd(cyc)
    /\ i' = i + 1
    /\ nops' = nops + 1
    /\ UNCHANGED <<hw, pc, stLoc, n, gtLoc, cyc, stHist, last, gtHist, lastRet>>

\* The range is exhausted: wait_cycles returns.
CycReturn ==
    /\ pc = "cyc_loop"
    /\ i >= RangeEnd(cyc)
    /\ pc' = "idle"
    /\ lastRet' = "wait_cycles"
    /\ i' = 0
    /\ UNCHANGED <<hw, stLoc, n, gtLoc, cyc, nops, stHist, last, gtHist>>

\* ------------------------------------------------------------------ specs
Next ==
    \/ Tick
    \/ GtTick
    \/ CallGetSystemTimer
    \/ GstReadHi1
    \/ GstReadHi2
    \/ GstReadHi3
    \/ GstReadLo
    \/ CallWaitMsecSt
    \/ StBaseline
    \/ StPoll
    \/ StPollPanic
    \/ CallWaitMsec
    \/ GtReadFrq
    \/ GtPanic
    \/ GtWriteTval
    \/ GtArm
    \/ GtPoll
    \/ GtDisable
    \/ CallWaitCycles
    \/ CycNop
    \/ CycReturn

Spec == Init /\ [][Next]_vars

TypeOK ==
    /\ counter \in 0..(CounterMod - 1)
    /\ TVAL \in 0..(TvalMod - 1)
    /\ ctl \in [ENABLE : BOOLEAN, IMASK : BOOLEAN]
    /\ pc \in {"idle", "panic", "cyc_loop"} \cup GstPcs \cup GtPcs
    /\ caller \in {"main", "st_base", "st_poll"}
    /\ hi \in 0..(WordMod - 1)
    /\ t \in 0..(CounterMod - 1)
    /\ n \in 0..MaxWait
    /\ frq \in FrqValues
    /\ tval \in 0..(TvalMod - 1)
    /\ cyc \in 0..MaxCyc
    /\ elapsed \in 0..MaxTicksPerRead
    /\ reads \in [hi : 0..3, lo : 0..1, differed : BOOLEAN, late : BOOLEAN]
    /\ hiIncs \in 0..MaxTicksPerRead
    /\ Len(last) <= 1

\* The counter keeps advancing and the CPU keeps executing the running
\* operation; only wait_msec_st is called.
LiveInit ==
    /\ Init
    /\ TVAL = 0
    /\ ctl = [ENABLE |-> FALSE, IMASK |-> FALSE]

StStep ==
    \/ GstReadHi1
    \/ GstReadHi2
    \/ GstReadHi3
    \/ StBaseline
    \/ StPoll
    \/ StPollPanic

LiveNext ==
    \/ Tick
    \/ CallWaitMsecSt
    \/ StStep

LiveSpec ==
    /\ LiveInit
    /\ [][LiveNext]_vars
    /\ SF_vars(Tick)
    /\ WF_vars(StStep)

\* ------------------------------------------------- wait_msec, re-entered
\* An interrupt taken while wait_msec polls calls wait_msec(k) on the same
\* core, once per outer call; the outer call resumes when it has returned.
\* let frq = ...; let tval = (frq as u32 / 1000) * n;
IrqCall ==
    /\ pc = "gt_poll"
    /\ irq = IrqOff
    /\ \E k \in 0..MaxWait, f \in FrqValues :
        irq' = [irq EXCEPT !.pc = "gt_tval", !.tval = WrapU32(Ticks(f, k))]
    /\ UNCHANGED <<hw, pc, stLoc, n, gtLoc, cycLoc, stHist, last, tvalWritten,
                   spun, observed, gtTicks, earlyTick, ctl0, lastRet>>

\* The nested product overflows u32 in a build that checks arithmetic.
IrqPanic ==
    /\ pc = "gt_poll"
    /\ irq = IrqOff
    /\ \E k \in 0..MaxWait, f \in FrqValues : Ticks(f, k) >= TvalMod
    /\ pc' = "panic"
    /\ UNCHANGED <<hw, stLoc, n, gtLoc, cycLoc, stHist, last, gtHist, lastRet>>

\* CNTP_TVAL_EL0::write_raw(tval);
IrqWriteTval ==
    /\ irq.pc = "gt_tval"
    /\ TVAL' = irq.tval
    /\ irq' = [irq EXCEPT !.pc = "gt_arm", !.wrote = TRUE]
    /\ UNCHANGED <<counter, ctl, pc, stLoc, n, gtLoc, cycLoc, stHist, last,
                   tvalWritten, spun, observed, gtTicks, earlyTick, ctl0,
                   lastRet>>

\* CNTP_CTL_EL0::modify_flags(|r| { ENABLE, IMASK });
IrqArm ==
    /\ irq.pc = "gt_arm"
    /\ ctl' = ArmFlags(ctl)
    /\ irq' = [irq EXCEPT !.pc = "gt_poll"]
    /\ UNCHANGED <<counter, TVAL, pc, stLoc, n, gtLoc, cycLoc, stHist, last,
                   tvalWritten, spun, observed, gtTicks, earlyTick, ctl0,
                   lastRet>>

\* loop { if read_flags().contains(ISTATUS) { break; } }
IrqPoll ==
    /\ irq.pc = "gt_poll"
    /\ ISTATUS(TVAL, ctl)
    /\ irq' = [irq EXCEPT !.pc = "gt_disable"]
    /\ UNCHANGED <<hw, pc, stLoc, n, gtLoc, cycLoc, stHist, last, tvalWritten,
                   spun, observed, gtTicks, earlyTick, ctl0, lastRet>>

\* CNTP_CTL_EL0::modify_flags(|r| { r.set(ENABLE, false) }); and the return
IrqDisable ==
    /\ irq.pc = "gt_disable"
    /\ ctl' = DisarmFlags(ctl)
    /\ irq' = [irq EXCEPT !.pc = "off", !.done = TRUE]
    /\ UNCHANGED <<counter, TVAL, pc, stLoc, n, gtLoc, cycLoc, stHist, last,
                   tvalWritten, spun, observed, gtTicks, earlyTick, ctl0,
                   lastRet>>

\* The outer poll reads ISTATUS while ENABLE is clear: the architecture
\* leaves the value of the flag open, so the poll may also find it set.
GtPollUnknown ==
    /\ pc = "gt_poll"
    /\ irq.pc = "off"
    /\ ~ctl.ENABLE
    /\ pc' = "gt_disable"
    /\ observed' = TRUE
    /\ UNCHANGED <<hw, stLoc, n, gtLoc, cycLoc, stHist, last, tvalWritten,
                   spun, gtTicks, earlyTick, ctl0, irq, lastRet>>

ReNext ==
    \/ GtTick
    \/ CallWaitMsec
    \/ GtReadFrq
    \/ GtPanic
    \/ GtWriteTval
    \/ GtArm
    \/ GtPoll
    \/ GtPollUnknown
    \/ GtDisable
    \/ IrqCall
    \/ IrqPanic
    \/ IrqWriteTval
    \/ IrqArm
    \/ IrqPoll
    \/ IrqDisable

\* The system timer takes no part in wait_msec.
ReInit == Init /\ counter = 0

SpecReentry == ReInit /\ [][ReNext]_vars

\* ----------------------------------------------------------------- claims
\* The step in which get_system_timer reads SYSTMR_LO and returns Reading.
GstReturns == pc = "gst_lo" /\ pc' # "gst_lo"

\* C1: the value get_system_timer returns is a value the counter held at
\* some instant between the entry of the call and its return.
C1_NeverTorn == [][GstReturns => Reading \in Seen]_vars

\* C2: when the high word changed exactly once between the first and the
\* last register read, the returned high word is the one after the change
\* (the low word is read last, hence after it).
C2_PostRolloverHigh ==
    [][(GstReturns /\ hiIncs = 1) => HiWord(Reading) = HiWord(counter)]_vars

\* C3: while the counter only increases (no wrap-around of the 64-bit value
\* since the previous call was entered), a reading is never below the
\* reading returned before it.
C3_Monotonic ==
    [][(GstReturns /\ last # <<>> /\ counter >= elapsed)
         => Reading >= last[1]]_vars

\* C4: with a baseline t > 0, n > 0, t + n within 64 bits and a counter that
\* has advanced since the baseline, wait_msec_st returns only after one of
\* its readings was at least t + n.
C4_WaitLowerBound ==
    [][(GstReturns /\ caller = "st_poll" /\ pc' = "idle"
          /\ t > 0 /\ n > 0 /\ t + n < CounterMod /\ Reading > t)
         => reached']_vars

\* C5: a wait_msec_st(n), n > 0, whose register reads all returned 0 never
\* enters its polling loop.
C5_ZeroCounterNoLoop ==
    (allZero /\ n > 0) => (~polled /\ caller # "st_poll")

\* C5 witness: such a call has returned after its baseline reading alone.
C5_Witness ==
    /\ pc = "idle" /\ lastRet = "wait_msec_st"
    /\ allZero /\ n > 0 /\ ~polled

\* C6: against a counter that keeps advancing, every wait_msec_st call
\* eventually returns (a panic of a checked build ends the call as well).
C6_WaitTerminates ==
    (pc = "gst_hi1" /\ caller = "st_base") ~> (pc \in {"idle", "panic"})

\* C7: once a wait_msec call has returned, ENABLE is clear.
C7_DisarmedOnReturn ==
    (pc = "idle" /\ lastRet = "wait_msec") => ~ctl.ENABLE

\* C7 witness: wait_msec(0) with a frequency register of 0 has returned.
C7_Witness ==
    /\ pc = "idle" /\ lastRet = "wait_msec"
    /\ n = 0 /\ frq = 0 /\ ~ctl.ENABLE

\* C8: wait_cycles(cyc) has executed exactly cyc no-ops when it returns, and
\* never more than cyc while it runs.
C8_ExactCycles ==
    /\ pc = "cyc_loop" => nops <= cyc
    /\ (pc = "idle" /\ lastRet = "wait_cycles") => nops = cyc

\* C8 witness: wait_cycles(MaxCyc) has returned after MaxCyc no-ops.
C8_Witness ==
    /\ pc = "idle" /\ lastRet = "wait_cycles"
    /\ cyc = MaxCyc /\ nops = MaxCyc

\* C9: wait_msec enables the timer only after writing the compare value,
\* and from the step that sets ENABLE on, IMASK is set with it.
C9_EnabledMasked ==
    /\ pc = "gt_arm" => tvalWritten
    /\ pc \in {"gt_poll", "gt_disable"}
         => (ctl.ENABLE /\ ctl.IMASK /\ tvalWritten)

\* C9 witness: the armed timer is being polled and has not expired yet.
C9_Witness ==
    /\ pc = "gt_poll" /\ spun
    /\ ctl.ENABLE /\ ctl.IMASK /\ TVAL > 0

\* C10: the compare value wait_msec writes is the exact product
\* (frq / 1000) * n.
C10_ExactProduct ==
    (pc \in GtPcs /\ tvalWritten) => tval = Ticks(frq, n)

\* C11: wait_msec returns only after a poll found ISTATUS set, and, when no
\* tick fell between the write of the compare value and the enable step (the
\* timer counts the written value down from the enable step on), not before
\* (frq / 1000) * n ticks have elapsed since that step.
C11_WaitsAllTicks ==
    (pc = "idle" /\ lastRet = "wait_msec" /\ ~earlyTick)
        => (observed /\ gtTicks >= Ticks(frq, n))

\* wait_msec has computed tval from a frequency register of 0 or from n = 0.
ZeroWait == (pc \in GtPcs \ {"gt_frq"} \/ (pc = "idle" /\ lastRet = "wait_msec"))
            /\ (frq = 0 \/ n = 0)

\* C12: with a frequency register of 0, or n = 0, wait_msec writes the
\* compare value 0, ISTATUS is set from the enable step on, and the call
\* returns at its first poll, no tick having elapsed since the enable step.
C12_ZeroExpiresAtOnce ==
    ZeroWait =>
        /\ tval = 0
        /\ tvalWritten => TVAL = 0
        /\ pc = "gt_poll" => ISTATUS(TVAL, ctl)
        /\ ~spun /\ gtTicks = 0
        /\ pc \in {"gt_disable", "idle"} => observed

\* C12 witness: wait_msec(n), n > 0, met a frequency register of 0 and has
\* returned at its first poll.
C12_Witness ==
    /\ pc = "idle" /\ lastRet = "wait_msec"
    /\ frq = 0 /\ n > 0 /\ tval = 0
    /\ observed /\ ~spun /\ gtTicks = 0

\* C13: the completion step of wait_msec clears ENABLE and changes nothing
\* else of the timer: IMASK stays set, as arming left it, and the compare
\* value register is not written.
C13_CompletionClearsEnableOnly ==
    [][(pc = "gt_disable" /\ pc' # pc)
         => /\ ~ctl'.ENABLE
            /\ ctl.IMASK /\ ctl'.IMASK
            /\ TVAL' = TVAL]_vars

\* C13 witness: wait_msec has returned; IMASK was clear when it was entered
\* and is set now, not restored.
C13_Witness ==
    /\ pc = "idle" /\ lastRet = "wait_msec"
    /\ ~ctl0.IMASK /\ ctl.IMASK /\ ~ctl.ENABLE

\* C14: once a second wait_msec has run to completion while the first one
\* polls, the first one polls a timer whose compare value was overwritten
\* (it holds what the second call left, an expired 0) and which is disabled;
\* until such a re-entry has completed, ENABLE is set whenever the first
\* call is polling and not preempted.
C14_ReentryCorrupts ==
    /\ (pc = "gt_poll" /\ irq.pc = "off" /\ irq.done)
         => (irq.wrote /\ TVAL = 0 /\ ~ctl.ENABLE)
    /\ (pc = "gt_poll" /\ irq.pc = "off" /\ ~irq.done) => ctl.ENABLE

\* C14 witness: the first call still had ticks to wait for when the second
\* one overwrote and disabled the timer; it is polling the disabled timer.
C14_Witness ==
    /\ pc = "gt_poll" /\ irq.pc = "off" /\ irq.done
    /\ tval > gtTicks
    /\ ~ctl.ENABLE /\ TVAL = 0 /\ spun

\* A step of the program inside get_system_timer, wait_msec_st or
\* wait_cycles, or the call of one of them (the counters' own ticks move
\* neither pc nor i).
ReadOnlyOpStep ==
    \/ pc \in GstPcs \cup {"cyc_loop"} /\ (pc' # pc \/ i' # i)
    \/ pc = "idle" /\ pc' \in GstPcs \cup {"cyc_loop"}

\* C15: get_system_timer, wait_msec_st and wait_cycles write no register:
\* their steps leave the system timer, the compare value and the control
\* flags as they were; the control flags change, and the compare value
\* changes otherwise than by the timer's own countdown, only in wait_msec.
C15_OnlyWaitMsecWrites ==
    [][/\ ReadOnlyOpStep => (counter' = counter /\ TVAL' = TVAL /\ ctl' = ctl)
       /\ (ctl' # ctl \/ TVAL' \notin {TVAL, TVAL - 1}) => pc \in GtPcs
       /\ counter' \in {counter, (counter + 1) % CounterMod}]_vars

\* C15 witness: a wait_msec_st that polled has returned and the enabled,
\* unexpired timer it found is untouched.
C15_Witness ==
    /\ pc = "idle" /\ lastRet = "wait_msec_st" /\ polled
    /\ ctl = ctl0 /\ ctl.ENABLE /\ TVAL > 0

\* C16: when the high word did not change between the last SYSTMR_HI read
\* of a get_system_timer call and its SYSTMR_LO read, the value returned is
\* the counter's value at the SYSTMR_LO read.
C16_ExactWhenHighStable ==
    [][(GstReturns /\ ~reads.late) => Reading = counter]_vars

\* C16 witness: a call that read the high word three times has returned the
\* counter's value.
C16_Witness ==
    /\ pc = "idle" /\ lastRet = "get_system_timer"
    /\ reads.differed /\ ~reads.late
    /\ last = <<counter>>

\* Register reads a get_system_timer call makes before it reads SYSTMR_LO.
HighReadsDue == IF reads.differed THEN 3 ELSE 2

\* C17: a get_system_timer call reads SYSTMR_HI twice when the first two
\* reads agree and three times when they differ, never more, and reads
\* SYSTMR_LO once, as its last register read.
C17_BoundedReads ==
    /\ reads.hi <= 3 /\ reads.lo <= 1
    /\ pc \in GstPcs => reads.lo = 0
    /\ pc = "gst_lo" => reads.hi = HighReadsDue
    /\ (pc = "idle" /\ lastRet \in {"get_system_timer", "wait_msec_st"})
         => (reads.lo = 1 /\ reads.hi = HighReadsDue)

\* C17 witness: a call whose first two high reads differed has returned
\* after three high reads and one low read.
C17_Witness ==
    /\ pc = "idle" /\ lastRet = "get_system_timer"
    /\ reads.differed /\ reads.hi = 3 /\ reads.lo = 1

====
